---- MODULE Spec2Model ----
(***************************************************************************)
(* The interaction state machine of the BedFlow dashboard                  *)
(* (src/jbi100_app/main.py): the "global-state" store, the menu controls   *)
(* and the callbacks that read and write them.                             *)
(*                                                                         *)
(* Values that travel as JSON between the browser and the callbacks are    *)
(* modelled as tagged records [t, n, s]: t is the JSON type, n the number  *)
(* (a float is kept in tenths) and s the string.  A list of event names is *)
(* abstracted to the set of its elements.                                  *)
(*                                                                         *)
(* The loader (src/jbi100_app/data.py) is a pure function of the files it  *)
(* finds.  Its parts are run on inputs drawn from bounded sets, each under *)
(* a specification of its own: SpecPick for _pick_col, SpecLoad for the    *)
(* search of the weekly file and the detection of its columns, SpecStaff   *)
(* for the staff join and SpecDerive for the derived metrics.  The figure  *)
(* callbacks are pure functions of the table and of the store; they run on *)
(* small tables under SpecTimeline, SpecMetric and SpecHeatmap.  SpecAsync *)
(* lets the two callbacks that write the store overlap.                    *)
(***************************************************************************)
EXTENDS Integers, Sequences, FiniteSets, TLC

VARIABLES
    state,           \* data of dcc.Store "global-state"
    controls,        \* values of diagnostic-focus, event-visibility, comparison-mode
    service_select,  \* value of the dcc.Dropdown "service-select"
    pc,              \* which callback the framework has to run next
    ev,              \* the last user event: the inputs its handler got, and its outcome
    pick,            \* a call of _pick_col: its arguments and its return value
    load,            \* a run of load_hospitalbeds up to the detection of the columns
    staff,           \* a run of the staff join of load_hospitalbeds
    derive,          \* a run of the derivation of the metrics in load_hospitalbeds
    view             \* a run of the figure callbacks on a table and a store value

vars == <<state, controls, service_select, pc, ev>>
data_vars == <<pick, load, staff, derive, view>>
all_vars == <<vars, data_vars>>

----------------------------------------------------------------------------
(* Bounds of the model *)

MaxWeek == 2
MaxTriggered == 2

----------------------------------------------------------------------------
(* JSON values *)

JNull == [t |-> "null", n |-> 0, s |-> ""]
JStr(str) == [t |-> "str", n |-> 0, s |-> str]
JInt(i) == [t |-> "int", n |-> i, s |-> ""]
JFloat(tenths) == [t |-> "float", n |-> tenths, s |-> ""]
JList == [t |-> "list", n |-> 0, s |-> ""]
Absent == [t |-> "absent", n |-> 0, s |-> ""]

\* A control value that is None, and one that is a list of names.
CtlNone == [isnull |-> TRUE, items |-> {}]
CtlList(E) == [isnull |-> FALSE, items |-> E]

----------------------------------------------------------------------------
(* The data the layout is built from *)

Services == {"ICU", "ER"}
Events == {"flu", "strike", "donation"}
FocusValues == {"refusal_rate", "patients_per_staff", "bed_utilization"}
AllServices == "__ALL__"

InitialState ==
    [selected_service |-> JNull,
     selected_week    |-> JNull,
     diagnostic_focus |-> "refusal_rate",
     visible_events   |-> CtlList(Events),
     comparison_mode  |-> "single"]

InitialControls ==
    [diagnostic_focus |-> "refusal_rate",
     visible_events   |-> CtlList(Events),
     comparison_mode  |-> "single"]

----------------------------------------------------------------------------
(* Python helpers *)

\* dict.get(key, default)
Get(d, key, default) == IF key \in DOMAIN d THEN d[key] ELSE default

\* The integer literals int() accepts among the strings of the model.
IntLiteral == ("0" :> 0) @@ ("1" :> 1) @@ ("2" :> 2) @@ ("3" :> 3)

\* int(x): [exc, v]
PyInt(x) ==
    CASE x.t = "int"   -> [exc |-> "none", v |-> x.n]
      [] x.t = "float" -> [exc |-> "none",
                           v |-> IF x.n >= 0 THEN x.n \div 10 ELSE -((-x.n) \div 10)]
      [] x.t = "str"   -> IF x.s \in DOMAIN IntLiteral
                          THEN [exc |-> "none", v |-> IntLiteral[x.s]]
                          ELSE [exc |-> "ValueError", v |-> 0]
      [] OTHER         -> [exc |-> "TypeError", v |-> 0]

\* prop_id.split(".")[0]
ComponentId ==
    ("heatmap.clickData" :> "heatmap")
    @@ ("clear-selection-btn.n_clicks" :> "clear-selection-btn")
    @@ ("header-clear-btn.n_clicks" :> "header-clear-btn")

PropIds == DOMAIN ComponentId
ClearButtons == {"clear-selection-btn", "header-clear-btn"}

----------------------------------------------------------------------------
(* Click payloads: heatmap.clickData *)

NoClick == [kind |-> "none", x |-> Absent, y |-> Absent]
NoPoints == [kind |-> "nopoints", x |-> Absent, y |-> Absent]
EmptyPoints == [kind |-> "emptypoints", x |-> Absent, y |-> Absent]
Point(x, y) == [kind |-> "point", x |-> x, y |-> y]

\* bool(click_data)
Truthy(click_data) == click_data.kind # "none"

Ret(s) == [exc |-> "none", state |-> s]

\* Variant: a click always selects its cell, and never deselects.
ToggleSelection_NeverDeselects(service, week, current_state) ==
    [current_state EXCEPT !.selected_service = service, !.selected_week = JInt(week)]

\* Variant: the deselection test compares the service alone.
ToggleSelection_ServiceOnly(service, week, current_state) ==
    IF Get(current_state, "selected_service", JNull) = service
    THEN [current_state EXCEPT !.selected_service = JNull, !.selected_week = JNull]
    ELSE [current_state EXCEPT !.selected_service = service,
                               !.selected_week = JInt(week)]

\* The toggle of lines 537-548.
ToggleSelection(service, week, current_state) ==
    IF /\ Get(current_state, "selected_service", JNull) = service
       /\ Get(current_state, "selected_week", JNull) = JInt(week)
    THEN [current_state EXCEPT !.selected_service = JNull, !.selected_week = JNull]
    ELSE [current_state EXCEPT !.selected_service = service,
                               !.selected_week = JInt(week)]

\* The try block of lines 532-550.
HeatmapClick(click_data, current_state) ==
    IF click_data.kind = "nopoints" THEN Ret(current_state)             \* KeyError
    ELSE IF click_data.kind = "emptypoints" THEN Ret(current_state)     \* IndexError
    ELSE IF click_data.y = Absent THEN Ret(current_state)               \* KeyError
    ELSE IF click_data.x = Absent THEN Ret(current_state)               \* KeyError
    ELSE LET week == PyInt(click_data.x) IN
         IF week.exc = "TypeError" THEN Ret(current_state)
         ELSE IF week.exc = "ValueError"
              THEN [exc |-> "ValueError", state |-> current_state]      \* not caught
              ELSE Ret(ToggleSelection(click_data.y, week.v, current_state))

\* Variant: the week is left selected.
ClearSelection_KeepsWeek(current_state) ==
    [current_state EXCEPT !.selected_service = JNull]

\* Variant: a clear button resets the whole store.
ClearSelection_ResetsStore(current_state) == InitialState

\* Lines 524-528.
ClearSelection(current_state) ==
    [current_state EXCEPT !.selected_service = JNull, !.selected_week = JNull]

\* Variant: the last trigger listed decides.
FirstTriggered_Last(triggered) == triggered[Len(triggered)]

\* callback_context.triggered[0]
FirstTriggered(triggered) == triggered[1]

update_selection(triggered, click_data, current_state) ==
    IF triggered = <<>> THEN Ret(current_state)
    ELSE LET triggered_id == ComponentId[FirstTriggered(triggered)] IN
         IF triggered_id \in ClearButtons THEN Ret(ClearSelection(current_state))
         ELSE IF triggered_id = "heatmap" /\ Truthy(click_data)
              THEN HeatmapClick(click_data, current_state)
              ELSE Ret(current_state)

\* Variant: the controls are reset to their defaults whatever the store holds.
sync_controls_from_state_Defaults(s) ==
    [diagnostic_focus |-> "refusal_rate",
     visible_events   |-> CtlList(Events),
     comparison_mode  |-> "single"]

sync_controls_from_state(s) ==
    [diagnostic_focus |-> Get(s, "diagnostic_focus", "refusal_rate"),
     visible_events   |-> Get(s, "visible_events", CtlList(Events)),
     comparison_mode  |-> Get(s, "comparison_mode", "single")]

\* Variant: an empty or missing value falls back to the default events.
OrEmptyList_Default(v) == IF v.isnull \/ v.items = {} THEN CtlList(Events) ELSE v

\* visible_events or []
OrEmptyList(v) == IF v.isnull \/ v.items = {} THEN CtlList({}) ELSE v

\* Variant: the ticked events toggle the stored ones instead of replacing them.
update_state_from_controls_Toggle(diagnostic_focus, visible_events, comparison_mode, s) ==
    [s EXCEPT !.diagnostic_focus = diagnostic_focus,
              !.visible_events = CtlList((s.visible_events.items \ visible_events.items)
                                   \cup (visible_events.items \ s.visible_events.items)),
              !.comparison_mode = comparison_mode]

update_state_from_controls(diagnostic_focus, visible_events, comparison_mode, s) ==
    [s EXCEPT !.diagnostic_focus = diagnostic_focus,
              !.visible_events = OrEmptyList(visible_events),
              !.comparison_mode = comparison_mode]

----------------------------------------------------------------------------
(* Inputs *)

CellClicks ==
    {Point(JInt(w), y) : w \in 0..MaxWeek, y \in {JStr(s) : s \in Services} \cup {JNull}}

OddClicks ==
    {Point(JFloat(15), JStr("ICU")), Point(JStr("2"), JStr("ICU")),
     Point(JStr("abc"), JStr("ICU")), Point(JNull, JStr("ICU")),
     Point(JList, JStr("ICU")), Point(Absent, JStr("ICU")),
     Point(JInt(1), Absent)}

ClickPayloads == CellClicks \cup OddClicks \cup {NoClick, NoPoints, EmptyPoints}

\* The clickData the heatmap still holds when something else triggers too.
StaleClicks == {NoClick, Point(JInt(1), JStr("ICU"))}

\* Lists of distinct triggering props, at most MaxTriggered long.
TriggerLists ==
    {t \in UNION {[1..k -> PropIds] : k \in 0..MaxTriggered} :
        \A i, j \in DOMAIN t : i # j => t[i] # t[j]}

SelectionInputs ==
    {<<(<<"heatmap.clickData">>), c>> : c \in ClickPayloads}
    \cup {<<t, c>> : t \in TriggerLists, c \in StaleClicks}

\* The values the event checklist is given: None, nothing ticked, one, all.
EventValues == {CtlNone, CtlList({}), CtlList({"flu"}), CtlList(Events)}

BrushRanges == {<<lo, hi>> : lo \in 1..MaxWeek, hi \in 1..MaxWeek}

----------------------------------------------------------------------------
(* The last user event *)

Selection(s) == <<Get(s, "selected_service", JNull), Get(s, "selected_week", JNull)>>
NoSelection == <<JNull, JNull>>

\* state.get("brush_range"): <<>> when there is none
BrushRangeOf(s) == Get(s, "brush_range", <<>>)

SameInput(e, op, triggered, click, ctl, filt, range) ==
    /\ e.op = op
    /\ e.triggered = triggered
    /\ e.click = click
    /\ e.ctl = ctl
    /\ e.filt = filt
    /\ e.range = range

Event(op, triggered, click, ctl, filt, range, exc) ==
    LET again == SameInput(ev, op, triggered, click, ctl, filt, range) IN
    [op        |-> op,
     triggered |-> triggered,
     click     |-> click,
     ctl       |-> ctl,
     filt      |-> filt,
     range     |-> range,
     exc       |-> exc,
     prior     |-> state,
     repeat    |-> again,
     start_sel |-> IF again THEN Selection(ev.prior) ELSE Selection(state)]

----------------------------------------------------------------------------
(* The state machine *)

\* The dashboard runs on a table that is already loaded.
NoDataRun ==
    /\ pick = [pc |-> "off"]
    /\ load = [pc |-> "off"]
    /\ staff = [pc |-> "off"]
    /\ derive = [pc |-> "off"]
    /\ view = [pc |-> "off"]

Init ==
    /\ state = InitialState
    /\ controls = InitialControls
    /\ service_select = AllServices
    /\ pc = "sync"
    /\ ev = [op |-> "init", triggered |-> <<>>, click |-> NoClick,
             ctl |-> InitialControls, filt |-> AllServices, range |-> <<>>,
             exc |-> "none", prior |-> InitialState, repeat |-> FALSE,
             start_sel |-> NoSelection]
    /\ NoDataRun

\* A heatmap click or a clear button: the callback update_selection.
UpdateSelection(triggered, click_data) ==
    /\ pc = "idle"
    /\ LET r == update_selection(triggered, click_data, state) IN
        /\ state' = IF r.exc = "none" THEN r.state ELSE state
        /\ pc' = IF r.exc = "none" THEN "sync" ELSE "idle"
        /\ ev' = Event("update_selection", triggered, click_data, controls,
                       service_select, <<>>, r.exc)
    /\ UNCHANGED <<controls, service_select>>

\* The store changed: the callback sync_controls_from_state.
SyncControlsFromState ==
    /\ pc = "sync"
    /\ controls' = sync_controls_from_state(state)
    /\ pc' = IF controls' # controls THEN "controls" ELSE "idle"
    /\ UNCHANGED <<state, service_select, ev>>

\* A control was written by the sync: the callback update_state_from_controls.
UpdateStateFromControls ==
    /\ pc = "controls"
    /\ state' = update_state_from_controls(controls.diagnostic_focus,
                    controls.visible_events, controls.comparison_mode, state)
    /\ pc' = "sync"
    /\ UNCHANGED <<controls, service_select, ev>>

\* The user picks a diagnostic focus.
DiagnosticFocusChange(F) ==
    /\ pc = "idle"
    /\ controls' = [controls EXCEPT !.diagnostic_focus = F]
    /\ state' = update_state_from_controls(controls'.diagnostic_focus,
                    controls'.visible_events, controls'.comparison_mode, state)
    /\ pc' = "sync"
    /\ ev' = Event("diagnostic-focus", <<>>, NoClick, controls', service_select,
                   <<>>, "none")
    /\ UNCHANGED service_select

\* The user ticks or unticks event categories.
EventVisibilityChange(E) ==
    /\ pc = "idle"
    /\ controls' = [controls EXCEPT !.visible_events = E]
    /\ state' = update_state_from_controls(controls'.diagnostic_focus,
                    controls'.visible_events, controls'.comparison_mode, state)
    /\ pc' = "sync"
    /\ ev' = Event("event-visibility", <<>>, NoClick, controls', service_select,
                   <<>>, "none")
    /\ UNCHANGED service_select

\* The user picks a service in the dropdown: no callback has it as an input.
ServiceFilterChange(V) ==
    /\ pc = "idle"
    /\ service_select' = V
    /\ ev' = Event("service-select", <<>>, NoClick, controls, V, <<>>, "none")
    /\ UNCHANGED <<state, controls, pc>>

\* The user drags a range on a timeline: no callback has it as an input.
BrushChange(range) ==
    /\ pc = "idle"
    /\ ev' = Event("brush", <<>>, NoClick, controls, service_select, range, "none")
    /\ UNCHANGED <<state, controls, service_select, pc>>

Next ==
    \/ UNCHANGED data_vars /\ \E in \in SelectionInputs : UpdateSelection(in[1], in[2])
    \/ UNCHANGED data_vars /\ SyncControlsFromState
    \/ UNCHANGED data_vars /\ UpdateStateFromControls
    \/ UNCHANGED data_vars /\ \E F \in FocusValues : DiagnosticFocusChange(F)
    \/ UNCHANGED data_vars /\ \E E \in EventValues : EventVisibilityChange(E)
    \/ UNCHANGED data_vars /\ \E V \in Services \cup {AllServices} : ServiceFilterChange(V)
    \/ UNCHANGED data_vars /\ \E range \in BrushRanges : BrushChange(range)

Spec == Init /\ [][Next]_all_vars

----------------------------------------------------------------------------
(* Properties *)

\* The last event was a call of update_selection whose first trigger is c.
SelectionEventBy(components) ==
    /\ ev.op = "update_selection"
    /\ ev.triggered # <<>>
    /\ ComponentId[ev.triggered[1]] \in components

\* The payload names a heatmap cell: both coordinates are there and x converts.
IsCellClick(c) ==
    /\ c.kind = "point"
    /\ c.x # Absent
    /\ c.y # Absent
    /\ PyInt(c.x).exc = "none"

\* The cell (S, W) a payload names.
CellOf(c) == <<c.y, JInt(PyInt(c.x).v)>>

\* The malformed payloads: no 'points', no point, a coordinate missing, x of a wrong
\* type, x a string that is no integer.
IsMalformed(c) ==
    \/ c.kind \in {"nopoints", "emptypoints"}
    \/ /\ c.kind = "point"
       /\ \/ c.x = Absent
          \/ c.y = Absent
          \/ c.x.t \in {"null", "list"}
          \/ c.x.t = "str" /\ c.x.s \notin {"0", "1", "2", "3"}

\* C1: in every reachable state selected_service and selected_week are both null or
\* both non-null.
C1_SelectionPaired ==
    (state.selected_service = JNull) <=> (state.selected_week = JNull)

\* C2: a click on a cell (S, W) made when nothing was selected, followed at once by a
\* second click on the same cell, leaves selected_service and selected_week null.
C2_SecondClickDeselects ==
    (/\ SelectionEventBy({"heatmap"})
     /\ IsCellClick(ev.click)
     /\ ev.repeat
     /\ ev.start_sel = NoSelection)
    => Selection(state) = NoSelection

C2_SecondClickDone ==
    /\ SelectionEventBy({"heatmap"})
    /\ IsCellClick(ev.click)
    /\ ev.click.y = JStr("ER")
    /\ ev.repeat
    /\ ev.start_sel = NoSelection
    /\ Selection(ev.prior) = CellOf(ev.click)
    /\ Selection(state) = NoSelection

\* C3: a click on a cell (S, W) in a state whose selection is not (S, W) selects
\* (S, W), whatever was selected before.
C3_ClickSelects ==
    (/\ SelectionEventBy({"heatmap"})
     /\ IsCellClick(ev.click)
     /\ Selection(ev.prior) # CellOf(ev.click))
    => /\ ev.exc = "none"
       /\ Selection(state) = CellOf(ev.click)

C3_SelectionReplaced ==
    /\ SelectionEventBy({"heatmap"})
    /\ IsCellClick(ev.click)
    /\ Selection(ev.prior) = <<JStr("ICU"), JInt(1)>>
    /\ Selection(state) = <<JStr("ICU"), JInt(2)>>

\* C4: the clear-selection command, from the sidebar button or the header button,
\* leaves selected_service and selected_week null and no brush range in the state.
C4_ClearClears ==
    SelectionEventBy(ClearButtons)
    => /\ ev.exc = "none"
       /\ Selection(state) = NoSelection
       /\ BrushRangeOf(state) = <<>>

C4_ClearedASelection ==
    /\ SelectionEventBy({"header-clear-btn"})
    /\ Selection(ev.prior) = <<JStr("ICU"), JInt(1)>>
    /\ Selection(state) = NoSelection

\* C5: no state has a selection together with a service filter that names another
\* service.
C5_FilterConsistent ==
    ~ (/\ state.selected_service.t = "str"
       /\ state.selected_week # JNull
       /\ service_select # AllServices
       /\ state.selected_service # JStr(service_select))

\* C6: a malformed click payload leaves the state as it was and raises nothing.
C6_MalformedIsNoOp ==
    (SelectionEventBy({"heatmap"}) /\ IsMalformed(ev.click))
    => /\ ev.exc = "none"
       /\ state = ev.prior

C8_Idempotent ==
    (/\ ev.repeat
     /\ \/ ev.op \in {"diagnostic-focus", "event-visibility"}
        \/ SelectionEventBy(ClearButtons))
    => state = ev.prior

C8_AppliedTwice ==
    /\ ev.repeat
    /\ ev.op = "event-visibility"
    /\ ev.ctl.visible_events = CtlList({"flu"})
    /\ state.visible_events = CtlList({"flu"})
    /\ state.diagnostic_focus = "bed_utilization"
    /\ pc = "idle"

\* C9: after a range brush to [lo, hi] the state's brush_range is [lo, hi].
C9_BrushStored ==
    ev.op = "brush" => BrushRangeOf(state) = ev.range

\* C10: after an event-visibility change to E the state's visible_events is exactly
\* E, the empty set when E is empty or missing, and the checklist shows the same.
C10_VisibleEventsExact ==
    ev.op = "event-visibility"
    => /\ state.visible_events = CtlList(ev.ctl.visible_events.items)
       /\ pc = "idle" => controls.visible_events = state.visible_events

C10_MissingValueGivesEmpty ==
    /\ ev.op = "event-visibility"
    /\ ev.ctl.visible_events = CtlNone
    /\ state.visible_events = CtlList({})
    /\ controls.visible_events = CtlList({})
    /\ pc = "idle"

----------------------------------------------------------------------------
(* Column names (src/jbi100_app/data.py) *)

\* A name is the sequence of its pieces: "week_start" is <<"week", "_start">>
\* and "xb" is <<"x", "b">>.  str.lower and the substring test of Python act
\* piece by piece; the pieces are cut where one name of the model starts
\* inside another one.
LowerPiece(piece) ==
    CASE piece = "A" -> "a"
      [] piece = "B" -> "b"
      [] piece = "Week" -> "week"
      [] piece = "Service" -> "service"
      [] OTHER -> piece

Lower(name) == [i \in DOMAIN name |-> LowerPiece(name[i])]

\* sub in name
In(sub, name) ==
    \E k \in 0..(Len(name) - Len(sub)) : SubSeq(name, k + 1, k + Len(sub)) = sub

\* None, where a column name is expected.
None == <<>>

Min(S) == CHOOSE m \in S : \A n \in S : m <= n
Max(S) == CHOOSE m \in S : \A n \in S : n <= m

\* cols = {c.lower(): c for c in df.columns}; cols[key]: of the columns with
\* the same lower-cased name the dict keeps the last one.
ColsDict(columns, key) ==
    columns[Max({j \in DOMAIN columns : Lower(columns[j]) = key})]

\* The first loop of _pick_col: the first candidate that is a key of cols.
ExactPass(columns, candidates) ==
    LET hits == {i \in DOMAIN candidates :
                    \E j \in DOMAIN columns : Lower(columns[j]) = Lower(candidates[i])}
    IN IF hits = {} THEN None ELSE ColsDict(columns, Lower(candidates[Min(hits)]))

\* The loops the other way round: the first column holding any candidate.
SubstringPass_ColumnMajor(columns, candidates) ==
    LET hits == {j \in DOMAIN columns :
                    \E i \in DOMAIN candidates :
                        In(Lower(candidates[i]), Lower(columns[j]))}
    IN IF hits = {} THEN None ELSE columns[Min(hits)]

\* The second loop: candidates outside, columns inside.
SubstringPass(columns, candidates) ==
    LET Holds(i) == {j \in DOMAIN columns : In(Lower(candidates[i]), Lower(columns[j]))}
        hits == {i \in DOMAIN candidates : Holds(i) # {}}
    IN IF hits = {} THEN None ELSE columns[Min(Holds(Min(hits)))]

\* One loop trying, for each candidate in turn, the exact and then the
\* substring match.
_pick_col_CandidateAtATime(columns, candidates) ==
    LET Exact(i) == {j \in DOMAIN columns : Lower(columns[j]) = Lower(candidates[i])}
        Holds(i) == {j \in DOMAIN columns : In(Lower(candidates[i]), Lower(columns[j]))}
        hits == {i \in DOMAIN candidates : Holds(i) # {}}
    IN IF hits = {} THEN None
       ELSE IF Exact(Min(hits)) # {} THEN columns[Max(Exact(Min(hits)))]
       ELSE columns[Min(Holds(Min(hits)))]

_pick_col(columns, candidates) ==
    IF ExactPass(columns, candidates) # None
    THEN ExactPass(columns, candidates)
    ELSE SubstringPass(columns, candidates)

\* The sequences over S of at most n elements.
SeqsUpTo(S, n) == UNION {[1..k -> S] : k \in 0..n}

----------------------------------------------------------------------------
(* SpecPick: _pick_col on small tables *)

MaxPickColumns == 2
MaxCandidates == 2

PickColumnNames ==
    {<<"a">>, <<"A">>, <<"b">>, <<"x">>, <<"x", "b">>, <<"a", "x">>}
PickCandidateNames == {<<"a">>, <<"b">>, <<"B">>}

\* No dashboard is running while the loader is exercised.
NoDashboard ==
    /\ state = InitialState
    /\ controls = InitialControls
    /\ service_select = AllServices
    /\ pc = "off"
    /\ ev = [op |-> "off"]

InitPick ==
    /\ NoDashboard
    /\ view = [pc |-> "off"]
    /\ pick \in [pc : {"call"},
                 columns : SeqsUpTo(PickColumnNames, MaxPickColumns),
                 candidates : SeqsUpTo(PickCandidateNames, MaxCandidates),
                 result : {None}]
    /\ load = [pc |-> "off"]
    /\ staff = [pc |-> "off"]
    /\ derive = [pc |-> "off"]

PickCol ==
    /\ pick.pc = "call"
    /\ pick' = [pick EXCEPT !.pc = "returned",
                            !.result = _pick_col(pick.columns, pick.candidates)]
    /\ UNCHANGED <<vars, load, staff, derive, view>>

NextPick == PickCol

SpecPick == InitPick /\ [][NextPick]_all_vars

\* Some column is some candidate, letter case aside.
HasExactMatch(columns, candidates) ==
    \E i \in DOMAIN candidates : \E j \in DOMAIN columns :
        Lower(columns[j]) = Lower(candidates[i])

\* C11: when some column equals some candidate case-insensitively, _pick_col
\* returns one of the table's columns that equals a candidate
\* case-insensitively, never one that merely contains a candidate, whatever
\* the order of the candidates.
C11_ExactBeforeSubstring ==
    (pick.pc = "returned" /\ HasExactMatch(pick.columns, pick.candidates))
        => /\ \E j \in DOMAIN pick.columns : pick.columns[j] = pick.result
           /\ \E i \in DOMAIN pick.candidates :
                  Lower(pick.result) = Lower(pick.candidates[i])

\* C11 witness: the first candidate is only a substring of a column (b in
\* xb), a later candidate is a column (a), and the call has returned.
C11_SubstringCandidateFirst ==
    /\ pick.pc = "returned"
    /\ pick.candidates = <<(<<"b">>), (<<"a">>)>>
    /\ pick.columns = <<(<<"x", "b">>), (<<"a">>)>>
    /\ pick.result = <<"a">>

----------------------------------------------------------------------------
(* SpecLoad: load_hospitalbeds from the search of the weekly file to the   *)
(* detection of its columns                                                *)

MaxTableColumns == 3

\* The file names tried, in order.
WeeklyFileNames ==
    <<"services_weekly.csv", "service_weekly.csv", "weekly_services.csv",
      "hospital_beds.csv">>

\* Path.resolve(): a relative path is made absolute.
Resolve(data_dir) ==
    IF data_dir[1] = "/" THEN data_dir ELSE <<"/", "cwd">> \o data_dir

DataDirs == {<<"data">>, <<"/", "srv", "data">>}

\* The candidate names of each field, as load_hospitalbeds passes them.
Candidates ==
    [week       |-> <<(<<"week">>), (<<"week", "_", "number">>),
                      (<<"week", "_", "index">>)>>,
     service    |-> <<(<<"service">>), (<<"department">>), (<<"unit">>),
                      (<<"ward">>)>>,
     requests   |-> <<(<<"patient", "s", "_", "request">>),
                      (<<"patient", "_", "request", "s">>),
                      (<<"request", "s">>), (<<"demand">>)>>,
     admissions |-> <<(<<"patient", "s", "_", "admitted">>), (<<"admitted">>),
                      (<<"admissions">>), (<<"accepted">>)>>,
     refusals   |-> <<(<<"patient", "s", "_", "refused">>), (<<"refused">>),
                      (<<"refusals">>), (<<"rejections">>)>>,
     beds       |-> <<(<<"available", "_", "bed", "s">>), (<<"bed", "s">>),
                      (<<"bed", "_", "available">>)>>,
     event      |-> <<(<<"event">>), (<<"event", "s">>),
                      (<<"special", "_", "event">>)>>]

OptionalFields == {"requests", "admissions", "refusals", "beds", "event"}

\* The header of the weekly file: distinct names, as read_csv gives them.
TableColumnNames ==
    {<<"week">>, <<"week", "_", "start">>, <<"week", "_", "number">>,
     <<"Service">>, <<"patient", "s", "_", "request">>,
     <<"available", "_", "bed", "s">>, <<"event", "s">>, <<"notes">>}

TableHeaders ==
    {h \in SeqsUpTo(TableColumnNames, MaxTableColumns) :
        \A i, j \in DOMAIN h : i # j => h[i] # h[j]}

\* The text of an exception: what it quotes.
Message(type, path, names, lists_columns, columns) ==
    [type |-> type, path |-> path, names |-> names,
     lists_columns |-> lists_columns, columns |-> columns]

NoError == Message("none", <<>>, {}, FALSE, <<>>)

\* weekly_file after the loop over the names: the first that exists, or None.
FirstExisting(files) ==
    LET found == {i \in DOMAIN WeeklyFileNames : WeeklyFileNames[i] \in files}
    IN IF found = {} THEN "None" ELSE WeeklyFileNames[Min(found)]

\* The condition under which the columns are reported as undetected.
MissingMandatory_OrRequests(cols) ==
    cols.week = None \/ cols.service = None \/ cols.requests = None

MissingMandatory(cols) == cols.week = None \/ cols.service = None

NoCols ==
    [week |-> None, service |-> None, requests |-> None, admissions |-> None,
     refusals |-> None, beds |-> None, event |-> None]

InitLoad ==
    /\ NoDashboard
    /\ view = [pc |-> "off"]
    /\ load \in [pc : {"find"},
                 data_dir : DataDirs,
                 files : SUBSET {WeeklyFileNames[i] : i \in DOMAIN WeeklyFileNames},
                 columns : TableHeaders,
                 weekly_file : {"None"},
                 cols : {NoCols},
                 error : {NoError}]
    /\ pick = [pc |-> "off"]
    /\ staff = [pc |-> "off"]
    /\ derive = [pc |-> "off"]

\* The search of the weekly file.
FindWeeklyFile ==
    /\ load.pc = "find"
    /\ LET weekly_file == FirstExisting(load.files) IN
        load' = IF weekly_file = "None"
                THEN [load EXCEPT !.pc = "FileNotFoundError",
                        !.error = Message("FileNotFoundError", Resolve(load.data_dir),
                                          {"services_weekly.csv"}, FALSE, <<>>)]
                ELSE [load EXCEPT !.pc = "read", !.weekly_file = weekly_file]
    /\ UNCHANGED <<vars, pick, staff, derive, view>>

\* read_csv and the detection of the columns.
DetectColumns ==
    /\ load.pc = "read"
    /\ LET mandatory == [NoCols EXCEPT
                            !.week = _pick_col(load.columns, Candidates.week),
                            !.service = _pick_col(load.columns, Candidates.service)]
           cols == [f \in DOMAIN Candidates |-> _pick_col(load.columns, Candidates[f])]
       IN load' = IF MissingMandatory(cols)
                  THEN [load EXCEPT !.pc = "ValueError", !.cols = mandatory,
                          !.error = Message("ValueError", <<>>, {load.weekly_file},
                                            TRUE, load.columns)]
                  ELSE [load EXCEPT !.pc = "detected", !.cols = cols]
    /\ UNCHANGED <<vars, pick, staff, derive, view>>

NextLoad == FindWeeklyFile \/ DetectColumns

SpecLoad == InitLoad /\ [][NextLoad]_all_vars

\* The candidate list of the week field in the reference resolver.
ReferenceWeekCandidates ==
    <<(<<"week">>), (<<"week", "_", "start">>), (<<"week", "_", "number">>),
      (<<"week", "_", "index">>)>>

\* C12: the week column the loader picks is the one the resolver picks with
\* the ordered candidates week, week_start, week_number, week_index.
C12_WeekAsReference ==
    load.pc \in {"detected", "ValueError"}
        => load.cols.week = _pick_col(load.columns, ReferenceWeekCandidates)

\* C13: when none of the four file names exists the load fails with an error
\* whose message holds the resolved search path and the four accepted names;
\* when one exists the first of them in order is the file loaded.
C13_NotFoundNamesFiles ==
    /\ load.pc = "FileNotFoundError"
        => /\ load.error.path = Resolve(load.data_dir)
           /\ \A i \in DOMAIN WeeklyFileNames : WeeklyFileNames[i] \in load.error.names
    /\ load.pc \in {"read", "detected", "ValueError"}
        => /\ load.weekly_file \in load.files
           /\ \A i, j \in DOMAIN WeeklyFileNames :
                (WeeklyFileNames[j] = load.weekly_file /\ i < j)
                    => WeeklyFileNames[i] \notin load.files

\* Some column holds some candidate, letter case aside.
Resolvable(columns, candidates) ==
    \E i \in DOMAIN candidates : \E j \in DOMAIN columns :
        In(Lower(candidates[i]), Lower(columns[j]))

\* C14: the detection fails, with an error carrying the columns of the
\* table, exactly when week or service cannot be resolved; an optional field
\* that cannot be resolved never makes it fail and its entry stays None.
C14_SchemaErrorIffMandatoryMissing ==
    load.pc \in {"detected", "ValueError"}
        => /\ load.pc = "ValueError"
                <=> (\/ ~Resolvable(load.columns, Candidates.week)
                     \/ ~Resolvable(load.columns, Candidates.service))
           /\ load.pc = "ValueError"
                => load.error.lists_columns /\ load.error.columns = load.columns
           /\ load.pc = "detected"
                => \A f \in OptionalFields :
                     ~Resolvable(load.columns, Candidates[f]) => load.cols[f] = None

\* C14 witness: a table with week and service and none of the optional
\* fields has been loaded.
C14_OnlyMandatoryColumns ==
    /\ load.pc = "detected"
    /\ load.cols.week # None /\ load.cols.service # None
    /\ \A f \in OptionalFields : load.cols[f] = None

----------------------------------------------------------------------------
(* SpecStaff: the staff join of load_hospitalbeds *)

MaxWeeklyRows == 2
MaxScheduleRows == 2

\* A missing number in a pandas column.
NaN == [t |-> "nan", n |-> 0, s |-> ""]

\* pd.to_numeric(x, errors="coerce") on one cell
ToNumericCoerce(x) ==
    CASE x.t = "int" -> x
      [] x.t = "str" -> IF x.s \in DOMAIN IntLiteral THEN JInt(IntLiteral[x.s]) ELSE NaN
      [] OTHER       -> NaN

\* .fillna(value) on one cell
FillNa(x, value) == IF x = NaN THEN value ELSE x

\* The (week, service) pairs of the weekly table and of the schedule: one
\* pair of each is unknown to the other.
WeeklyKeys ==
    {[week |-> 1, service |-> "ICU"], [week |-> 2, service |-> "ICU"],
     [week |-> 2, service |-> "ER"]}
ScheduleKeys ==
    {[week |-> 1, service |-> "ICU"], [week |-> 2, service |-> "ICU"],
     [week |-> 1, service |-> "ER"]}
PresentValues == {JInt(1), JInt(0), JInt(2), JStr("yes"), JStr("1")}
ScheduleRows ==
    {[week |-> k.week, service |-> k.service, present |-> p] :
        k \in ScheduleKeys, p \in PresentValues}

\* sched[sched[present] != 0]: every row with a number other than 0
PresentRows_NonZero(schedule) ==
    {i \in DOMAIN schedule :
        FillNa(ToNumericCoerce(schedule[i].present), JInt(0)) # JInt(0)}

\* sched[sched[present] == 1]
PresentRows(schedule) ==
    {i \in DOMAIN schedule :
        FillNa(ToNumericCoerce(schedule[i].present), JInt(0)) = JInt(1)}

\* .groupby([wcol, scol]).size().reset_index(name="available_staff")
StaffCounts(schedule) ==
    {[week |-> schedule[i].week, service |-> schedule[i].service,
      available_staff |->
          JInt(Cardinality({j \in PresentRows(schedule) :
                  /\ schedule[j].week = schedule[i].week
                  /\ schedule[j].service = schedule[i].service}))] :
        i \in PresentRows(schedule)}

RECURSIVE SetToSeq(_)
SetToSeq(S) ==
    IF S = {} THEN <<>>
    ELSE LET x == CHOOSE y \in S : TRUE IN <<x>> \o SetToSeq(S \ {x})

\* An inner join: the rows of the right table that have the key of the row.
MergeRow_Inner(row, right) ==
    SetToSeq({[week |-> row.week, service |-> row.service,
               available_staff |-> r.available_staff] :
                 r \in {q \in right : q.week = row.week /\ q.service = row.service}})

\* how="left" for one row of the left table: one row for each row of the
\* right table with the same key, and one row with a missing value if none.
MergeRow(row, right) ==
    LET matches == {r \in right : r.week = row.week /\ r.service = row.service}
    IN IF matches = {}
       THEN <<[week |-> row.week, service |-> row.service, available_staff |-> NaN]>>
       ELSE SetToSeq({[week |-> row.week, service |-> row.service,
                       available_staff |-> r.available_staff] : r \in matches})

RECURSIVE Merge(_, _)
Merge(left, right) ==
    IF left = <<>> THEN <<>>
    ELSE MergeRow(Head(left), right) \o Merge(Tail(left), right)

\* lines 141-166 on a schedule whose week, service and present columns were found
JoinStaffCounts(weekly, schedule) ==
    LET merged == Merge(weekly, StaffCounts(schedule))
    IN [i \in DOMAIN merged |->
          [merged[i] EXCEPT !.available_staff = FillNa(@, JInt(0))]]

InitStaff ==
    /\ NoDashboard
    /\ view = [pc |-> "off"]
    /\ staff \in [pc : {"merge"},
                  weekly : SeqsUpTo(WeeklyKeys, MaxWeeklyRows),
                  schedule : SeqsUpTo(ScheduleRows, MaxScheduleRows),
                  joined : {<<>>}]
    /\ pick = [pc |-> "off"]
    /\ load = [pc |-> "off"]
    /\ derive = [pc |-> "off"]

JoinStaff ==
    /\ staff.pc = "merge"
    /\ staff' = [staff EXCEPT !.pc = "joined",
                              !.joined = JoinStaffCounts(staff.weekly, staff.schedule)]
    /\ UNCHANGED <<vars, pick, load, derive, view>>

NextStaff == JoinStaff

SpecStaff == InitStaff /\ [][NextStaff]_all_vars

\* The schedule has a row for the (week, service) of the weekly row.
InSchedule(row, schedule) ==
    \E j \in DOMAIN schedule :
        schedule[j].week = row.week /\ schedule[j].service = row.service

\* C15: after the join the table has the weekly rows, as many and in the
\* same order; each has an integer available_staff, never a missing value,
\* and it is 0 when the schedule has no row for its (week, service).
C15_JoinKeepsRowsAndFills ==
    staff.pc = "joined"
        => /\ Len(staff.joined) = Len(staff.weekly)
           /\ \A i \in DOMAIN staff.joined :
                /\ i \in DOMAIN staff.weekly
                /\ staff.joined[i].week = staff.weekly[i].week
                /\ staff.joined[i].service = staff.weekly[i].service
                /\ staff.joined[i].available_staff.t = "int"
                /\ staff.joined[i].available_staff.n >= 0
                /\ ~InSchedule(staff.weekly[i], staff.schedule)
                      => staff.joined[i].available_staff = JInt(0)

\* C15 witness: a join of two weekly rows, one with staff present and one
\* that the schedule does not know.
C15_MatchedAndUnmatchedRow ==
    /\ staff.pc = "joined"
    /\ Len(staff.weekly) = 2
    /\ \E i \in DOMAIN staff.joined : staff.joined[i].available_staff.n >= 1
    /\ \E i \in DOMAIN staff.weekly : ~InSchedule(staff.weekly[i], staff.schedule)

----------------------------------------------------------------------------
(* SpecDerive: the derived metrics of load_hospitalbeds *)

MaxRows == 3

\* A float is the fraction n/d with d >= 0: 1/0 is inf, -1/0 is -inf and
\* 0/0 is NaN.  The counts of the tables are small integers, so the
\* fractions are exact where the floats are compared.
Rat(n, d) == [n |-> n, d |-> d]
Num(i) == Rat(i, 1)
Inf == Rat(1, 0)
NotANumber == Rat(0, 0)
IsNaN(x) == x.n = 0 /\ x.d = 0

\* x < y and x == y on floats: every comparison with NaN is false.
Less(x, y) == x.n * y.d < y.n * x.d
EqR(x, y) == ~IsNaN(x) /\ ~IsNaN(y) /\ x.n * y.d = y.n * x.d

\* .replace(0, float("nan")) left out: the denominator is kept as read.
ReplaceZeroByNaN_Kept(x) == x

\* .replace(0, float("nan")) on one cell
ReplaceZeroByNaN(x) == IF x.d # 0 /\ x.n = 0 THEN NotANumber ELSE x

Sign(i) == IF i > 0 THEN 1 ELSE IF i < 0 THEN -1 ELSE 0
Abs(i) == IF i < 0 THEN -i ELSE i

\* x / y on two cells of float columns holding counts
Divide(x, y) ==
    IF IsNaN(x) \/ IsNaN(y) THEN NotANumber
    ELSE IF y.n = 0 THEN Rat(Sign(x.n), 0)
    ELSE Rat(Sign(y.n) * x.n * y.d, Abs(y.n) * x.d)

\* .fillna(0.0) on one cell
FillNaR(x, value) == IF IsNaN(x) THEN value ELSE x

\* (numerator / denominator.replace(0, nan)).fillna(0.0), row by row
SafeRatio(numerator, denominator) ==
    [i \in DOMAIN numerator |->
        FillNaR(Divide(Num(numerator[i]), ReplaceZeroByNaN(Num(denominator[i]))),
                Num(0))]

\* The k-th smallest value of a column.
Kth(values, k) ==
    CHOOSE v \in {values[i] : i \in DOMAIN values} :
        /\ Cardinality({i \in DOMAIN values : values[i] < v}) < k
        /\ Cardinality({i \in DOMAIN values : values[i] <= v}) >= k

\* Series.median()
Median(values) ==
    LET n == Len(values) IN
    IF n % 2 = 1 THEN Num(Kth(values, (n + 1) \div 2))
    ELSE Rat(Kth(values, n \div 2) + Kth(values, n \div 2 + 1), 2)

\* Series.quantile(0.75): linear interpolation at position 0.75 * (n - 1)
Quantile75(values) ==
    LET n == Len(values)
        lo == (3 * (n - 1)) \div 4
        f == (3 * (n - 1)) % 4
        hi == IF f = 0 THEN lo ELSE lo + 1
    IN Rat(Kth(values, lo + 1) * (4 - f) + Kth(values, hi + 1) * f, 4)

\* x * 0.5
Half(x) == Rat(x.n, 2 * x.d)

\* pd.cut refuses edges that decrease and edges that repeat.
CutRaises(bins) ==
    \/ \E i \in 1..(Len(bins) - 1) : Less(bins[i + 1], bins[i])
    \/ \E i, j \in DOMAIN bins : i # j /\ EqR(bins[i], bins[j])

\* pd.cut(x, bins, labels) on one cell: the label of the interval
\* (bins[i], bins[i+1]] holding x, a missing value if there is none.
Cut(x, bins, labels) ==
    LET holds == {i \in 1..(Len(bins) - 1) : Less(bins[i], x) /\ ~Less(bins[i + 1], x)}
    IN IF holds = {} THEN "NaN" ELSE labels[Min(holds)]

DemandLabels == <<"Low", "Medium", "High", "Very High">>
RefusalLabels == <<"Low", "Medium", "High", "Critical">>

DemandBins(requests) ==
    <<Num(-1), Half(Median(requests)), Median(requests), Quantile75(requests), Inf>>

RefusalBins == <<Rat(-1, 100), Rat(5, 100), Rat(15, 100), Rat(30, 100), Rat(101, 100)>>

\* One column of the table.
Column(rows, name) == [i \in DOMAIN rows |-> rows[i][name]]

\* The rows of the weekly table: counts of requests, refusals, admissions,
\* beds and available staff.
Row(requests, refusals, admissions, beds, available_staff) ==
    [requests |-> requests, refusals |-> refusals, admissions |-> admissions,
     beds |-> beds, available_staff |-> available_staff]

WeeklyRows ==
    {Row(0, 0, 0, 0, 0), Row(0, 3, 5, 0, 2), Row(10, 1, 5, 2, 0),
     Row(10, 3, 4, 2, 1), Row(10, 25, 0, 2, 1), Row(20, 1, 5, 0, 0),
     Row(20, 3, 0, 0, 1), Row(20, 20, 4, 2, 2)}

\* Which of the columns the loader found: all of them, all without a staff
\* schedule, no requests, requests only, none.
ColumnsFound ==
    {{"requests", "refusals", "admissions", "beds", "available_staff"},
     {"requests", "refusals", "admissions", "beds"},
     {"refusals", "admissions", "beds", "available_staff"},
     {"requests"},
     {}}

NoColumn == <<>>

InitDerive ==
    /\ NoDashboard
    /\ view = [pc |-> "off"]
    /\ derive \in [pc : {"ratios"},
                   found : ColumnsFound,
                   rows : SeqsUpTo(WeeklyRows, MaxRows) \ {<<>>},
                   refusal_rate : {NoColumn},
                   bed_utilization : {NoColumn},
                   patients_per_staff : {NoColumn},
                   demand_level : {NoColumn},
                   refusal_level : {NoColumn}]
    /\ pick = [pc |-> "off"]
    /\ load = [pc |-> "off"]
    /\ staff = [pc |-> "off"]

\* refusal_rate, bed_utilization and patients_per_staff
DeriveRatios ==
    /\ derive.pc = "ratios"
    /\ derive' = [derive EXCEPT
         !.pc = "levels",
         !.refusal_rate =
             IF {"requests", "refusals"} \subseteq derive.found
             THEN SafeRatio(Column(derive.rows, "refusals"),
                            Column(derive.rows, "requests"))
             ELSE NoColumn,
         !.bed_utilization =
             IF {"admissions", "beds"} \subseteq derive.found
             THEN SafeRatio(Column(derive.rows, "admissions"),
                            Column(derive.rows, "beds"))
             ELSE NoColumn,
         !.patients_per_staff =
             IF {"admissions", "available_staff"} \subseteq derive.found
             THEN SafeRatio(Column(derive.rows, "admissions"),
                            Column(derive.rows, "available_staff"))
             ELSE NoColumn]
    /\ UNCHANGED <<vars, pick, load, staff, view>>

\* demand_level and refusal_level
DeriveLevels ==
    /\ derive.pc = "levels"
    /\ LET requests == Column(derive.rows, "requests") IN
       derive' =
         IF "requests" \in derive.found /\ CutRaises(DemandBins(requests))
         THEN [derive EXCEPT !.pc = "ValueError"]
         ELSE [derive EXCEPT
                 !.pc = "returned",
                 !.demand_level =
                     IF "requests" \in derive.found
                     THEN [i \in DOMAIN requests |->
                             Cut(Num(requests[i]), DemandBins(requests), DemandLabels)]
                     ELSE NoColumn,
                 !.refusal_level =
                     IF derive.refusal_rate # NoColumn
                     THEN [i \in DOMAIN derive.refusal_rate |->
                             Cut(derive.refusal_rate[i], RefusalBins, RefusalLabels)]
                     ELSE NoColumn]
    /\ UNCHANGED <<vars, pick, load, staff, view>>

NextDerive == DeriveRatios \/ DeriveLevels

SpecDerive == InitDerive /\ [][NextDerive]_all_vars

\* The ratio columns have been computed.
RatiosDerived == derive.pc \in {"levels", "returned", "ValueError"}

\* A cell holds the number 0.
IsZero(x) == x.d > 0 /\ x.n = 0

\* C16: a ratio whose denominator is 0 is 0 whatever its numerator
\* (refusal_rate when requests = 0, bed_utilization when beds = 0,
\* patients_per_staff when available_staff = 0), and no ratio of a row is
\* NaN or infinite.
C16_ZeroDenominatorGivesZero ==
    RatiosDerived =>
        /\ \A i \in DOMAIN derive.refusal_rate :
              /\ derive.refusal_rate[i].d > 0
              /\ derive.rows[i].requests = 0 => IsZero(derive.refusal_rate[i])
        /\ \A i \in DOMAIN derive.bed_utilization :
              /\ derive.bed_utilization[i].d > 0
              /\ derive.rows[i].beds = 0 => IsZero(derive.bed_utilization[i])
        /\ \A i \in DOMAIN derive.patients_per_staff :
              /\ derive.patients_per_staff[i].d > 0
              /\ derive.rows[i].available_staff = 0
                    => IsZero(derive.patients_per_staff[i])

\* C16 witness: the three ratios have been computed on a table with a row
\* of no requests and some refusals, a row of no beds and some admissions
\* and a row of no staff and some admissions.
C16_ZeroDenominatorsSeen ==
    /\ RatiosDerived
    /\ derive.refusal_rate # NoColumn
    /\ derive.bed_utilization # NoColumn
    /\ derive.patients_per_staff # NoColumn
    /\ \E i \in DOMAIN derive.rows :
          derive.rows[i].requests = 0 /\ derive.rows[i].refusals > 0
    /\ \E i \in DOMAIN derive.rows :
          derive.rows[i].beds = 0 /\ derive.rows[i].admissions > 0
    /\ \E i \in DOMAIN derive.rows :
          derive.rows[i].available_staff = 0 /\ derive.rows[i].admissions > 0

\* C17: the refusal_rate of a row with requests >= 0 and refusals >= 0 is
\* in [0, 1].
C17_RefusalRateInUnitInterval ==
    RatiosDerived =>
        \A i \in DOMAIN derive.refusal_rate :
            (derive.rows[i].requests >= 0 /\ derive.rows[i].refusals >= 0)
                => /\ ~Less(derive.refusal_rate[i], Num(0))
                   /\ ~Less(Num(1), derive.refusal_rate[i])

\* The rank of a label in its ordered list, 0 for a missing value.
Rank(label, labels) ==
    IF \E k \in DOMAIN labels : labels[k] = label
    THEN CHOOSE k \in DOMAIN labels : labels[k] = label
    ELSE 0

\* C18: on a table with requests, every row gets one of the four demand
\* levels, and a row with no more requests than another never gets a
\* higher level.
C18_DemandLevelTotalAndMonotone ==
    (derive.pc \in {"returned", "ValueError"} /\ "requests" \in derive.found)
        => /\ derive.pc = "returned"
           /\ \A i \in DOMAIN derive.rows :
                Rank(derive.demand_level[i], DemandLabels) >= 1
           /\ \A i, j \in DOMAIN derive.rows :
                derive.rows[i].requests <= derive.rows[j].requests
                    => Rank(derive.demand_level[i], DemandLabels)
                          <= Rank(derive.demand_level[j], DemandLabels)

\* C19: when the median of requests is 0 the load completes without error
\* and the other derived metrics are produced.
C19_ZeroMedianLoads ==
    (/\ derive.pc \in {"returned", "ValueError"}
     /\ "requests" \in derive.found
     /\ IsZero(Median(Column(derive.rows, "requests"))))
        => /\ derive.pc = "returned"
           /\ {"refusals"} \subseteq derive.found => derive.refusal_level # NoColumn

\* C20: every row with a refusal_rate has one refusal_level among Low,
\* Medium, High and Critical, fixed by its own rate against 0.05, 0.15 and
\* 0.30, and a higher rate never has a lower level.
C20_RefusalLevelTotalAndMonotone ==
    (derive.pc = "returned" /\ derive.refusal_rate # NoColumn)
        => /\ \A i \in DOMAIN derive.refusal_rate :
                /\ Rank(derive.refusal_level[i], RefusalLabels) >= 1
                /\ derive.refusal_level[i] =
                      Cut(derive.refusal_rate[i], RefusalBins, RefusalLabels)
           /\ \A i, j \in DOMAIN derive.refusal_rate :
                ~Less(derive.refusal_rate[j], derive.refusal_rate[i])
                    => Rank(derive.refusal_level[i], RefusalLabels)
                          <= Rank(derive.refusal_level[j], RefusalLabels)

\* C21: whatever inputs were found, the load does not fail and a derived
\* column is made exactly when all its prerequisites were found:
\* refusal_rate and refusal_level need requests and refusals,
\* bed_utilization needs admissions and beds, patients_per_staff needs
\* admissions and the staff counts, demand_level needs requests.
C21_MetricsIndependentlyOptional ==
    derive.pc \in {"returned", "ValueError"}
        => /\ derive.pc = "returned"
           /\ derive.refusal_rate # NoColumn
                <=> {"requests", "refusals"} \subseteq derive.found
           /\ derive.refusal_level # NoColumn
                <=> {"requests", "refusals"} \subseteq derive.found
           /\ derive.bed_utilization # NoColumn
                <=> {"admissions", "beds"} \subseteq derive.found
           /\ derive.patients_per_staff # NoColumn
                <=> {"admissions", "available_staff"} \subseteq derive.found
           /\ derive.demand_level # NoColumn <=> "requests" \in derive.found

----------------------------------------------------------------------------
(* SpecTimeline: the diagnostic timeline and the impact timeline *)
(* (src/jbi100_app/main.py, src/jbi100_app/views/panels.py)      *)

MaxTableWeek == 15
MaxSelectedWeek == 9
WindowHalfWidth == 6

\* The rows of df: one per service and week, week 0 included.
TimelineTable ==
    {[week |-> w, service |-> s] : w \in 0..MaxTableWeek, s \in Services}

\* The store values the two callbacks read: no selection, a week without a
\* service, a (service, week) pair.
TimelineStates ==
    {[selected_service |-> JNull, selected_week |-> JNull, comparison_mode |-> "single"]}
    \cup {[selected_service |-> x, selected_week |-> JInt(w), comparison_mode |-> "single"] :
            x \in {JNull} \cup {JStr(s) : s \in Services}, w \in 0..MaxSelectedWeek}

\* The value of the week-range slider: None or [lo, hi].
WeekRanges ==
    {<<>>} \cup {<<lo, hi>> : lo \in {1, 4}, hi \in {4, MaxTableWeek}}

\* df[(df[week] >= week_range[0]) & (df[week] <= week_range[1])] if week_range
FilterWeekRange(df, week_range) ==
    IF week_range = <<>> THEN df
    ELSE {r \in df : r.week >= week_range[1] /\ r.week <= week_range[2]}

\* selected_week - 6, without the max
WeekMin_Unclamped(selected_week) == selected_week - WindowHalfWidth

\* max(1, selected_week - 6)
WeekMin(selected_week) ==
    IF selected_week - WindowHalfWidth > 1 THEN selected_week - WindowHalfWidth ELSE 1

WeekMax(selected_week) == selected_week + WindowHalfWidth

\* dff[(dff[week_col] >= week_min) & (dff[week_col] <= week_max)]
Window(dff, selected_week) ==
    {r \in dff : r.week >= WeekMin(selected_week) /\ r.week <= WeekMax(selected_week)}

\* dff[dff[service_col] == selected_service] if selected_service
FilterService(dff, selected_service) ==
    IF selected_service.t = "str" /\ selected_service.s # ""
    THEN {r \in dff : r.service = selected_service.s}
    ELSE dff

\* A figure: the placeholder, or the rows of the table it aggregates.
Placeholder == [placeholder |-> TRUE, rows |-> {}]
Figure(rows) == [placeholder |-> FALSE, rows |-> rows]
NotRendered == [placeholder |-> FALSE, rows |-> {[week |-> -1, service |-> ""]}]

make_event_timeline(df, selected_service, selected_week, comparison_mode) ==
    IF selected_service = JNull THEN Placeholder
    ELSE LET dff == IF selected_week # JNull /\ comparison_mode = "single"
                    THEN Window(df, selected_week.n) ELSE df
         IN IF comparison_mode = "services" THEN Figure(dff)
            ELSE Figure(FilterService(dff, selected_service))

make_human_cost_timeline(df, selected_service, selected_week) ==
    IF selected_service = JNull THEN Placeholder
    ELSE LET dff == IF selected_week # JNull
                    THEN Window(df, selected_week.n) ELSE df
         IN Figure(FilterService(dff, selected_service))

update_timeline(s, week_range) ==
    make_event_timeline(FilterWeekRange(TimelineTable, week_range),
        s.selected_service, s.selected_week, s.comparison_mode)

update_human_impact(s, week_range) ==
    make_human_cost_timeline(FilterWeekRange(TimelineTable, week_range),
        s.selected_service, s.selected_week)

InitTimeline ==
    /\ NoDashboard
    /\ pick = [pc |-> "off"]
    /\ load = [pc |-> "off"]
    /\ staff = [pc |-> "off"]
    /\ derive = [pc |-> "off"]
    /\ view \in [pc : {"timelines"},
                 state : TimelineStates,
                 week_range : WeekRanges,
                 event_timeline : {NotRendered},
                 human_cost_timeline : {NotRendered}]

UpdateTimeline ==
    /\ view.pc = "timelines"
    /\ view.event_timeline = NotRendered
    /\ view' = [view EXCEPT
                  !.event_timeline = update_timeline(view.state, view.week_range)]
    /\ UNCHANGED <<vars, pick, load, staff, derive>>

UpdateHumanImpact ==
    /\ view.pc = "timelines"
    /\ view.human_cost_timeline = NotRendered
    /\ view' = [view EXCEPT
                  !.human_cost_timeline = update_human_impact(view.state, view.week_range)]
    /\ UNCHANGED <<vars, pick, load, staff, derive>>

NextTimeline == UpdateTimeline \/ UpdateHumanImpact

SpecTimeline == InitTimeline /\ [][NextTimeline]_all_vars

\* Both timelines have been drawn for a (service, week) selection.
TimelinesOfSelection ==
    /\ view.pc = "timelines"
    /\ view.event_timeline # NotRendered
    /\ view.human_cost_timeline # NotRendered
    /\ view.state.selected_service # JNull
    /\ view.state.selected_week # JNull

\* The rows of service S and of weeks max(1, W - 6) to W + 6 among the rows
\* that the week-range slider lets through.
DrillDownRows(S, W, week_range) ==
    {r \in TimelineTable :
        /\ r.service = S
        /\ r.week >= 1 /\ r.week >= W - 6 /\ r.week <= W + 6
        /\ week_range # <<>> => (r.week >= week_range[1] /\ r.week <= week_range[2])}

\* C22: with a selection (S, W) the diagnostic timeline and the impact
\* timeline are drawn from exactly the rows of service S whose week is in
\* [max(1, W - 6), W + 6]: no week below 1, no row outside the window, no
\* row of another service.
C22_WindowedRowsOnly ==
    TimelinesOfSelection
        => LET rows == DrillDownRows(view.state.selected_service.s,
                                     view.state.selected_week.n, view.week_range)
           IN /\ view.event_timeline = Figure(rows)
              /\ view.human_cost_timeline = Figure(rows)

\* C22 witness: both timelines drawn for the selection (ICU, 2) with no
\* week range: the rows are those of ICU for the weeks 1 to 8.
C22_Week2GivesWeeks1To8 ==
    /\ TimelinesOfSelection
    /\ view.state.selected_service = JStr("ICU")
    /\ view.state.selected_week = JInt(2)
    /\ view.week_range = <<>>
    /\ view.event_timeline.rows = {[week |-> w, service |-> "ICU"] : w \in 1..8}
    /\ view.human_cost_timeline.rows = {[week |-> w, service |-> "ICU"] : w \in 1..8}

----------------------------------------------------------------------------
(* SpecMetric: metric_series (src/jbi100_app/main.py) *)

MaxSeriesRows == 2

\* The keys metric_series knows, each the name of a ColumnMap entry.
MetricKeys ==
    {"requests", "admissions", "refusals", "beds", "staff", "refusal_rate",
     "bed_utilization", "patients_per_staff"}

\* The values of diagnostic_focus the heatmap may pass: the known keys, a
\* key that is none of them, and None.
MetricArguments == {JStr(k) : k \in MetricKeys} \cup {JStr("morale"), JNull}

\* A ColumnMap: the entries that are not None.
ColumnMaps == SUBSET MetricKeys

\* The rows of the filtered table: a cell per ColumnMap entry.
MetricRow(requests, refusals, admissions, beds, available_staff) ==
    [requests |-> Num(requests), refusals |-> Num(refusals),
     admissions |-> Num(admissions), beds |-> Num(beds),
     staff |-> Num(available_staff),
     refusal_rate |-> SafeRatio(<<refusals>>, <<requests>>)[1],
     bed_utilization |-> SafeRatio(<<admissions>>, <<beds>>)[1],
     patients_per_staff |-> SafeRatio(<<admissions>>, <<available_staff>>)[1]]

MetricRows ==
    {MetricRow(10, 3, 4, 2, 1), MetricRow(0, 3, 5, 0, 0), MetricRow(20, 1, 6, 3, 2)}

\* getattr(cols, name, None) taken as always true
HasColumn_Unchecked(cols, name) == TRUE

\* getattr(cols, name, None) as a condition
HasColumn(cols, name) == name \in cols

\* dff[cols.name]: a KeyError when the entry is None
Lookup(dff, cols, name) ==
    IF name \in cols
    THEN [exc |-> "none", series |-> [i \in DOMAIN dff |-> dff[i][name]]]
    ELSE [exc |-> "KeyError", series |-> <<>>]

\* pd.Series([0] * len(dff))
ZeroSeries(dff) == [exc |-> "none", series |-> [i \in DOMAIN dff |-> Num(0)]]

\* (dff[cols.refusals] / dff[cols.requests].replace(0, pd.NA)).fillna(0)
AdHocRefusalRate(dff, cols) ==
    IF {"requests", "refusals"} \subseteq cols
    THEN [exc |-> "none",
          series |-> [i \in DOMAIN dff |->
              FillNaR(Divide(dff[i].refusals, ReplaceZeroByNaN(dff[i].requests)),
                      Num(0))]]
    ELSE [exc |-> "KeyError", series |-> <<>>]

metric_series(dff, cols, metric) ==
    IF metric.t = "str" /\ metric.s \in MetricKeys /\ HasColumn(cols, metric.s)
    THEN Lookup(dff, cols, metric.s)
    ELSE IF /\ metric = JStr("refusal_rate")
            /\ HasColumn(cols, "requests")
            /\ HasColumn(cols, "refusals")
    THEN AdHocRefusalRate(dff, cols)
    ELSE ZeroSeries(dff)

InitMetric ==
    /\ NoDashboard
    /\ pick = [pc |-> "off"]
    /\ load = [pc |-> "off"]
    /\ staff = [pc |-> "off"]
    /\ derive = [pc |-> "off"]
    /\ view \in [pc : {"metric"},
                 dff : SeqsUpTo(MetricRows, MaxSeriesRows),
                 cols : ColumnMaps,
                 metric : MetricArguments,
                 result : {[exc |-> "pending", series |-> <<>>]}]

MetricSeries ==
    /\ view.pc = "metric"
    /\ view' = [view EXCEPT
                  !.pc = "returned",
                  !.result = metric_series(view.dff, view.cols, view.metric)]
    /\ UNCHANGED <<vars, pick, load, staff, derive>>

NextMetric == MetricSeries

SpecMetric == InitMetric /\ [][NextMetric]_all_vars

\* C23: metric_series never raises.  It returns the column of the key when
\* the ColumnMap has it; otherwise, for refusal_rate with requests and
\* refusals in the ColumnMap, refusals / requests with 0 where requests is
\* 0; otherwise as many zeros as the filtered table has rows.
C23_MetricSeriesTotal ==
    (view.pc = "returned" /\ "metric" \in DOMAIN view)
        => LET key == view.metric
               known == key.t = "str" /\ key.s \in MetricKeys /\ key.s \in view.cols
               adhoc == /\ ~known
                        /\ key = JStr("refusal_rate")
                        /\ {"requests", "refusals"} \subseteq view.cols
               series == view.result.series
           IN /\ view.result.exc = "none"
              /\ Len(series) = Len(view.dff)
              /\ known => \A i \in DOMAIN series : series[i] = view.dff[i][key.s]
              /\ adhoc => \A i \in DOMAIN series :
                    IF view.dff[i].requests.n = 0 THEN series[i] = Num(0)
                    ELSE series[i].n * view.dff[i].requests.n
                            = view.dff[i].refusals.n * series[i].d
              /\ (~known /\ ~adhoc) => \A i \in DOMAIN series : series[i] = Num(0)

\* C23 witness: patients_per_staff was asked on a table of two rows whose
\* ColumnMap has neither staff nor patients_per_staff, and two zeros came
\* back.
C23_NoStaffGivesZeros ==
    /\ view.pc = "returned" /\ "metric" \in DOMAIN view
    /\ view.metric = JStr("patients_per_staff")
    /\ view.cols = {"requests", "refusals", "admissions", "beds", "refusal_rate",
                    "bed_utilization"}
    /\ Len(view.dff) = 2
    /\ view.result = [exc |-> "none", series |-> <<Num(0), Num(0)>>]

----------------------------------------------------------------------------
(* SpecHeatmap: the pivot of make_heatmap_interactive *)
(* (src/jbi100_app/views/panels.py)                    *)

MaxHeatmapRows == 2

\* The rows of the table with the value of the metric, in hundredths.
HeatmapRows ==
    {[week |-> w, service |-> s, value |-> v] :
        w \in {1, 2}, s \in Services, v \in {0, 20, 40}}

\* The rows of one (service, week).
CellRows(rows, service, week) ==
    {i \in DOMAIN rows : rows[i].service = service /\ rows[i].week = week}

RECURSIVE SumOver(_, _)
SumOver(rows, I) ==
    IF I = {} THEN 0
    ELSE LET i == CHOOSE j \in I : TRUE IN rows[i].value + SumOver(rows, I \ {i})

\* pivot_table(index=service_col, columns=week_col, values="value",
\*             aggfunc="sum", fill_value=0)
PivotTable(rows) ==
    [cell \in {rows[i].service : i \in DOMAIN rows} \X {rows[i].week : i \in DOMAIN rows} |->
        IF CellRows(rows, cell[1], cell[2]) = {} THEN 0
        ELSE SumOver(rows, CellRows(rows, cell[1], cell[2]))]

InitHeatmap ==
    /\ NoDashboard
    /\ pick = [pc |-> "off"]
    /\ load = [pc |-> "off"]
    /\ staff = [pc |-> "off"]
    /\ derive = [pc |-> "off"]
    /\ view \in [pc : {"heatmap"},
                 rows : SeqsUpTo(HeatmapRows, MaxHeatmapRows),
                 pivot : {<<>>}]

MakeHeatmap ==
    /\ view.pc = "heatmap"
    /\ view' = [view EXCEPT !.pc = "drawn", !.pivot = PivotTable(view.rows)]
    /\ UNCHANGED <<vars, pick, load, staff, derive>>

NextHeatmap == MakeHeatmap

SpecHeatmap == InitHeatmap /\ [][NextHeatmap]_all_vars

\* C24: each cell of the heatmap is the mean of the metric over the rows of
\* its (service, week), 0 when it has no rows; for a pair that occurs in
\* several rows it is the mean, not the sum.
C24_CellIsMean ==
    view.pc = "drawn"
        => \A cell \in DOMAIN view.pivot :
              LET I == CellRows(view.rows, cell[1], cell[2]) IN
              IF I = {} THEN view.pivot[cell] = 0
              ELSE view.pivot[cell] * Cardinality(I) = SumOver(view.rows, I)

----------------------------------------------------------------------------
(* SpecAsync: the two callbacks that write "global-state" as requests in   *)
(* flight (src/jbi100_app/main.py).  The browser sends with a request the  *)
(* value the store has when an input changes, as State("global-state",     *)
(* "data"); the value the callback returns replaces the store when the     *)
(* response arrives.  Under this specification pc holds the requests in    *)
(* flight and ev the events the user has made: at most one heatmap click   *)
(* and one change of a control.                                            *)

Request(callback, triggered, click_data, ctl, snapshot) ==
    [callback |-> callback, triggered |-> triggered, click_data |-> click_data,
     ctl |-> ctl, snapshot |-> snapshot]

InitAsync ==
    /\ state = InitialState
    /\ controls = InitialControls
    /\ service_select = AllServices
    /\ pc = {}
    /\ ev = [op |-> "session", click |-> NoClick, changed |-> FALSE]
    /\ NoDataRun

\* The user clicks a cell of the heatmap: a request for update_selection.
DispatchClick(click_data) ==
    /\ ev.click = NoClick
    /\ pc' = pc \cup {Request("update_selection", <<"heatmap.clickData">>,
                              click_data, controls, state)}
    /\ ev' = [ev EXCEPT !.click = click_data]
    /\ UNCHANGED <<state, controls, service_select, data_vars>>

\* The user changes a control: a request for update_state_from_controls.
DispatchControlChange(F, E) ==
    /\ ~ev.changed
    /\ controls' = [controls EXCEPT !.diagnostic_focus = F, !.visible_events = E]
    /\ controls' # controls
    /\ pc' = pc \cup {Request("update_state_from_controls", <<>>, NoClick,
                              controls', state)}
    /\ ev' = [ev EXCEPT !.changed = TRUE]
    /\ UNCHANGED <<state, service_select, data_vars>>

\* A response arrives: the value returned replaces the store.
Respond(request) ==
    /\ request \in pc
    /\ pc' = pc \ {request}
    /\ state' =
         IF request.callback = "update_selection"
         THEN LET r == update_selection(request.triggered, request.click_data,
                                        request.snapshot)
              IN IF r.exc = "none" THEN r.state ELSE state
         ELSE update_state_from_controls(request.ctl.diagnostic_focus,
                  request.ctl.visible_events, request.ctl.comparison_mode,
                  request.snapshot)
    /\ UNCHANGED <<controls, service_select, ev, data_vars>>

NextAsync ==
    \/ \E click_data \in CellClicks : DispatchClick(click_data)
    \/ \E F \in FocusValues : \E E \in EventValues : DispatchControlChange(F, E)
    \/ \E request \in pc : Respond(request)

SpecAsync == InitAsync /\ [][NextAsync]_all_vars

\* C25: when a click on a cell and a change of the controls have both been
\* answered, whatever the order of requests and responses, the store holds
\* the selection of the click and the values of the controls: neither is
\* overwritten by the stale snapshot of the other.
C25_BothEffectsKept ==
    (pc = {} /\ ev.changed /\ IsCellClick(ev.click))
        => /\ Selection(state) = CellOf(ev.click)
           /\ state.diagnostic_focus = controls.diagnostic_focus
           /\ state.visible_events = OrEmptyList(controls.visible_events)

----------------------------------------------------------------------------
(* More on _pick_col (SpecPick) *)

\* Column j holds candidate i, letter case aside.
Holds(columns, candidates, i, j) ==
    In(Lower(candidates[i]), Lower(columns[j]))

\* C26: when no column is a candidate, _pick_col returns the first column,
\* in the order of the table, that holds the earliest candidate held by any
\* column; when no column holds a candidate it returns None.
C26_SubstringPassCandidateMajor ==
    (pick.pc = "returned" /\ ~HasExactMatch(pick.columns, pick.candidates))
        => IF \A i \in DOMAIN pick.candidates : \A j \in DOMAIN pick.columns :
                  ~Holds(pick.columns, pick.candidates, i, j)
           THEN pick.result = None
           ELSE \E i \in DOMAIN pick.candidates : \E j \in DOMAIN pick.columns :
                  /\ Holds(pick.columns, pick.candidates, i, j)
                  /\ \A h \in 1..(i - 1) : \A k \in DOMAIN pick.columns :
                        ~Holds(pick.columns, pick.candidates, h, k)
                  /\ \A k \in 1..(j - 1) : ~Holds(pick.columns, pick.candidates, i, k)
                  /\ pick.result = pick.columns[j]

\* C26 witness: candidates a, b on the columns xb, ax: the later column ax
\* holds the earlier candidate and has been returned.
C26_EarlierCandidateWins ==
    /\ pick.pc = "returned"
    /\ pick.candidates = <<(<<"a">>), (<<"b">>)>>
    /\ pick.columns = <<(<<"x", "b">>), (<<"a", "x">>)>>
    /\ pick.result = <<"a", "x">>

----------------------------------------------------------------------------
(* More on the staff join (SpecStaff) *)

\* The schedule rows of the (week, service) of a weekly row whose present
\* cell is the number 1, written as a number or as text.
CountedRows(row, schedule) ==
    {j \in DOMAIN schedule :
        /\ schedule[j].week = row.week
        /\ schedule[j].service = row.service
        /\ schedule[j].present \in {JInt(1), JStr("1")}}

\* C27: the available_staff of a weekly row is the number of schedule rows
\* of its (week, service) whose present value is 1; a present of 0, of
\* another number or of a text that is no number is not counted.
C27_StaffCountsPresentOnes ==
    staff.pc = "joined"
        => \A i \in DOMAIN staff.joined :
              /\ i \in DOMAIN staff.weekly
              /\ staff.joined[i].available_staff
                    = JInt(Cardinality(CountedRows(staff.weekly[i], staff.schedule)))

\* C27 witness: a weekly row with two schedule rows, one present and one
\* with present = 2, has been given available_staff = 1.
C27_OnePresentOneNot ==
    /\ staff.pc = "joined"
    /\ staff.weekly = <<[week |-> 1, service |-> "ICU"]>>
    /\ staff.schedule = <<[week |-> 1, service |-> "ICU", present |-> JInt(2)],
                          [week |-> 1, service |-> "ICU", present |-> JInt(1)]>>
    /\ staff.joined = <<[week |-> 1, service |-> "ICU", available_staff |-> JInt(1)]>>

----------------------------------------------------------------------------
(* More on the store and its controls (Spec) *)

\* update_state_from_controls applied to s with the control values that
\* sync_controls_from_state derives from s
RoundTrip(s) ==
    LET c == sync_controls_from_state(s) IN
    update_state_from_controls(c.diagnostic_focus, c.visible_events,
                               c.comparison_mode, s)

\* C28: in every reachable state s, synchronising the controls from s and then
\* applying update_state_from_controls with those control values to s gives s
\* again; when the synchronisation has rewritten a control, the controls are the
\* ones derived from s, so the chained update leaves the state as it is and the
\* chain state -> controls -> state stops there.
C28_ControlsRoundTrip ==
    /\ RoundTrip(state) = state
    /\ pc = "controls" => controls = sync_controls_from_state(state)

\* The checklist was emptied to a missing value, the synchronisation wrote the
\* empty list back to it and the chained update has run.
C28_ChainedUpdateDone ==
    /\ ev.op = "event-visibility"
    /\ ev.ctl.visible_events = CtlNone
    /\ controls.visible_events = CtlList({})
    /\ state.visible_events = CtlList({})
    /\ state.diagnostic_focus = "patients_per_staff"
    /\ Selection(state) = <<JStr("ER"), JInt(2)>>
    /\ pc = "sync"

\* The part of the store the menu controls write
Settings(s) == <<s.diagnostic_focus, s.visible_events, s.comparison_mode>>

\* C29: a heatmap click or a clear button changes at most selected_service and
\* selected_week: diagnostic_focus, visible_events and comparison_mode are what
\* they were before it and no key is added or dropped; a diagnostic-focus or
\* event-visibility change leaves selected_service and selected_week as they were.
C29_CommandsKeepTheOtherFields ==
    /\ ev.op = "update_selection"
       => /\ Settings(state) = Settings(ev.prior)
          /\ DOMAIN state = DOMAIN ev.prior
    /\ ev.op \in {"diagnostic-focus", "event-visibility"}
       => /\ Selection(state) = Selection(ev.prior)
          /\ DOMAIN state = DOMAIN ev.prior

\* A cell click replaced the selection while the focus and the checklist were away
\* from their defaults.
C29_ClickWithChangedSettings ==
    /\ ev.op = "update_selection"
    /\ ev.click = Point(JInt(2), JStr("ER"))
    /\ Selection(ev.prior) = <<JStr("ICU"), JInt(1)>>
    /\ Selection(state) = <<JStr("ER"), JInt(2)>>
    /\ state.diagnostic_focus = "bed_utilization"
    /\ state.visible_events = CtlList({"flu"})
    /\ pc = "idle"

\* bool(v) of a JSON value: None, 0, 0.0 and "" are false
Bool(v) ==
    CASE v.t = "null"           -> FALSE
      [] v.t \in {"int", "float"} -> v.n # 0
      [] v.t = "str"            -> v.s # ""
      [] OTHER                  -> TRUE

\* a and b
And(a, b) == IF Bool(a) THEN b ELSE a

\* The styles of screen-2 and of its placeholder.
update_screen_visibility(s) ==
    LET has_selection == And(Get(s, "selected_service", JNull),
                             Get(s, "selected_week", JNull)) IN
    IF Bool(has_selection)
    THEN [screen_2 |-> "block", placeholder |-> "none"]
    ELSE [screen_2 |-> "none", placeholder |-> "block"]

\* The figure of the capacity breakdown: the breakdown of the selected cell or
\* the annotation that asks for a selection.
update_capacity(s) ==
    LET selected_week == Get(s, "selected_week", JNull)
        selected_service == Get(s, "selected_service", JNull) IN
    IF Bool(And(selected_week, selected_service))
    THEN [figure |-> "make_capacity_breakdown",
          week |-> selected_week, service |-> selected_service]
    ELSE [figure |-> "awaiting_selection", week |-> JNull, service |-> JNull]

\* A selection exists: selected_service and selected_week are both non-null.
HasSelection(s) ==
    /\ Get(s, "selected_service", JNull) # JNull
    /\ Get(s, "selected_week", JNull) # JNull

\* C30: exactly one of the diagnostic workspace and its placeholder is displayed,
\* and whenever a selection exists, week 0 included, the workspace is the one
\* displayed and the capacity breakdown is computed for the selected cell.
C30_WorkspaceForEverySelection ==
    LET shown == update_screen_visibility(state) IN
    /\ (shown.screen_2 = "block") # (shown.placeholder = "block")
    /\ HasSelection(state)
       => /\ shown.screen_2 = "block"
          /\ update_capacity(state) =
                [figure |-> "make_capacity_breakdown",
                 week |-> state.selected_week, service |-> state.selected_service]
====
